---- MODULE Spec2Model ----
(***************************************************************************)
(* Model of src/manim.py: MarkdownCodeParser.parse_markdown (the regular   *)
(* expressions are translated as backtracking searches over sequences of   *)
(* one-character strings), MarkdownCodeScene.load_markdown_file and        *)
(* MarkdownCodeScene.construct.                                            *)
(*                                                                         *)
(* A Python str is a sequence of one-character strings.  An Optional value *)
(* is <<>> for None and <<v>> for a value v.  A dict is a sequence of      *)
(* <<key, value>> pairs with distinct keys, in insertion order.            *)
(***************************************************************************)
EXTENDS Integers, Sequences, FiniteSets, TLC

\* ------------------------------------------------------------------ bounds
\* lexemes in a free-form document
MaxLex == 5
\* fences in a document of ordered fences
MaxFences == 3
\* largest N of an @stepN tag in a document of ordered fences
MaxStep == 2
\* annotation tags on the opening line of an annotated fence
MaxTags == 2

\* ------------------------------------------------------- character classes
None == <<>>
Some(v) == <<v>>

\* \s of module re, for the characters a TLA+ string can hold
SpaceChars == {" ", "\t", "\n", "\r", "\f"}
\* \d
DigitChars == {"0", "1", "2", "3", "4", "5", "6", "7", "8", "9"}
\* \w
WordChars ==
  DigitChars \cup {"_"} \cup
  {"a", "b", "c", "d", "e", "f", "g", "h", "i", "j", "k", "l", "m",
   "n", "o", "p", "q", "r", "s", "t", "u", "v", "w", "x", "y", "z"} \cup
  {"A", "B", "C", "D", "E", "F", "G", "H", "I", "J", "K", "L", "M",
   "N", "O", "P", "Q", "R", "S", "T", "U", "V", "W", "X", "Y", "Z"}

IsSpace(ch) == ch \in SpaceChars
IsWord(ch) == ch \in WordChars

\* ------------------------------------------------------------ str helpers
\* s[a..b] (1-based, inclusive), empty when a > b
Slice(s, a, b) == IF a > b THEN <<>> ELSE SubSeq(s, a, b)

\* the literal lit occurs in s at index i
StartsWithAt(s, i, lit) ==
  /\ i >= 1
  /\ i + Len(lit) - 1 <= Len(s)
  /\ \A k \in 1..Len(lit) : s[i + k - 1] = lit[k]

\* length of the longest run of characters of a class that starts at index i
RunLen(class, s, i) ==
  CHOOSE n \in 0..(Len(s) - i + 1) :
    /\ \A k \in i..(i + n - 1) : s[k] \in class
    /\ (i + n > Len(s) \/ s[i + n] \notin class)

\* the same for the class of . without DOTALL: every character but the newline
DotRunLen(s, i) ==
  CHOOSE n \in 0..(Len(s) - i + 1) :
    /\ \A k \in i..(i + n - 1) : s[k] # "\n"
    /\ (i + n > Len(s) \/ s[i + n] = "\n")

SetMin(S) == CHOOSE x \in S : \A y \in S : x <= y
SetMax(S) == CHOOSE x \in S : \A y \in S : x >= y

\* str.lstrip() only: what strip() would be with the trailing side forgotten
LStripOnly(s) ==
  LET keep == {i \in 1..Len(s) : ~IsSpace(s[i])}
  IN IF keep = {} THEN <<>> ELSE Slice(s, SetMin(keep), Len(s))

\* str.strip()
Strip(s) ==
  LET keep == {i \in 1..Len(s) : ~IsSpace(s[i])}
  IN IF keep = {} THEN <<>> ELSE Slice(s, SetMin(keep), SetMax(keep))

\* str.split(sep) for a non-empty separator
RECURSIVE Split(_, _)
Split(s, sep) ==
  LET hits == {i \in 1..Len(s) : StartsWithAt(s, i, sep)}
  IN IF hits = {} THEN <<s>>
     ELSE LET i == SetMin(hits)
          IN <<Slice(s, 1, i - 1)>> \o Split(Slice(s, i + Len(sep), Len(s)), sep)

DigitValue(ch) ==
  CASE ch = "0" -> 0 [] ch = "1" -> 1 [] ch = "2" -> 2 [] ch = "3" -> 3
    [] ch = "4" -> 4 [] ch = "5" -> 5 [] ch = "6" -> 6 [] ch = "7" -> 7
    [] ch = "8" -> 8 [] ch = "9" -> 9

\* int(s) for a non-empty string of digits
RECURSIVE ToInt(_)
ToInt(s) ==
  IF Len(s) = 0 THEN 0
  ELSE 10 * ToInt(Slice(s, 1, Len(s) - 1)) + DigitValue(s[Len(s)])

\* ------------------------------------------------------------ the literals
\* the backtick (U+0060), which a TLA+ string literal cannot hold
Backtick == "GRAVE"
Ticks == <<Backtick, Backtick, Backtick>>
Arrow == <<"-", ">">>
Comma == <<",">>
StepTag == <<"@", "s", "t", "e", "p">>
HighlightTag == <<"@", "h", "i", "g", "h", "l", "i", "g", "h", "t", "[">>
TransformTag == <<"@", "t", "r", "a", "n", "s", "f", "o", "r", "m", "[">>
IsolateTag == <<"@", "i", "s", "o", "l", "a", "t", "e", "[">>

\* ------------------------------------------------- re.search(^#\s+(.*), M)
\* The match of ^#\s+(.*) at index i: ^ is the start of the text or just
\* after a newline (MULTILINE), \s+ takes the longest run of whitespace
\* (newlines included), (.*) runs to the end of that line (no DOTALL).
TitleAt(c, i) ==
  IF ~( /\ i <= Len(c)
        /\ (i = 1 \/ c[i - 1] = "\n")
        /\ c[i] = "#"
        /\ RunLen(SpaceChars, c, i + 1) >= 1 )
  THEN None
  ELSE LET g == i + 1 + RunLen(SpaceChars, c, i + 1)
           n == DotRunLen(c, g)
       IN Some([hash |-> i, from |-> g, to |-> g + n - 1])

\* re.search: the leftmost index at which the pattern matches
TitleSearch(c) ==
  LET hits == {i \in 1..Len(c) : TitleAt(c, i) # None}
  IN IF hits = {} THEN None ELSE TitleAt(c, SetMin(hits))

\* ------------------------------- re.finditer(```(\w*)\s*(.*?)\n(.*?)```, S)
\* Every way the pattern can match with its three backticks at index s:
\* <<k, j, e2, e3>> is k word characters for group 1, j whitespace
\* characters for \s*, the newline that ends group 2 at index e2 and the
\* closing backticks at index e3.  With DOTALL group 2 and group 3 may hold
\* any character, newlines included.
FenceWays(c, s) ==
  IF ~StartsWithAt(c, s, Ticks) THEN {}
  ELSE
    UNION { UNION { UNION {
      { <<k, j, e2, e3>> :
          e3 \in {e \in (e2 + 1)..Len(c) : StartsWithAt(c, e, Ticks)} } :
        e2 \in {e \in (s + 3 + k + j)..Len(c) : c[e] = "\n"} } :
      j \in 0..RunLen(SpaceChars, c, s + 3 + k) } :
    k \in 0..RunLen(WordChars, c, s + 3) }

\* The way the backtracking finds first: \w* and \s* are greedy (longest
\* first), the two (.*?) are lazy (shortest first), and an earlier part of
\* the pattern decides before a later one.
FirstWay(ways) ==
  LET k == SetMax({t[1] : t \in ways})
      j == SetMax({t[2] : t \in {u \in ways : u[1] = k}})
      e2 == SetMin({t[3] : t \in {u \in ways : u[1] = k /\ u[2] = j}})
      e3 == SetMin({t[4] : t \in {u \in ways : u[1] = k /\ u[2] = j /\ u[3] = e2}})
  IN <<k, j, e2, e3>>

\* the match object for the way t of matching at index s
MatchObject(c, s, t) ==
  [start  |-> s,
   stop   |-> t[4] + 2,
   g1     |-> Slice(c, s + 3, s + 2 + t[1]),
   g2from |-> s + 3 + t[1] + t[2],
   g2     |-> Slice(c, s + 3 + t[1] + t[2], t[3] - 1),
   g3from |-> t[3] + 1,
   g3     |-> Slice(c, t[3] + 1, t[4] - 1)]

FenceMatch(c, s, ways) ==
  IF ways = {} THEN None ELSE Some(MatchObject(c, s, FirstWay(ways)))

\* the match of the pattern at index s, None when it does not match there
FenceAt(c, s) == FenceMatch(c, s, FenceWays(c, s))

\* the leftmost match that starts at index pos or later, None without one
RECURSIVE FenceSearch(_, _)
FenceOrLater(found, c, pos) ==
  IF found # None THEN found ELSE FenceSearch(c, pos + 1)

FenceSearch(c, pos) ==
  IF pos > Len(c) THEN None ELSE FenceOrLater(FenceAt(c, pos), c, pos)

\* finditer: the non-overlapping matches from index pos on, left to right
RECURSIVE FindFences(_, _)
FencesFrom(c, found) ==
  IF found = None THEN <<>>
  ELSE <<found[1]>> \o FindFences(c, found[1].stop + 1)

FindFences(c, pos) == FencesFrom(c, FenceSearch(c, pos))

\* ---------------------------------------- the searches in the annotations
\* re.search(@step(\d+)): group 1 of the leftmost match, None without one
StepSearch(a) ==
  LET hits == {i \in 1..Len(a) :
                 /\ StartsWithAt(a, i, StepTag)
                 /\ RunLen(DigitChars, a, i + Len(StepTag)) >= 1}
  IN IF hits = {} THEN None
     ELSE LET g == SetMin(hits) + Len(StepTag)
          IN Some(Slice(a, g, g + RunLen(DigitChars, a, g) - 1))

\* re.search(tag\[(.*?)\]) with tag ending in the bracket: group 1 of the
\* leftmost match, the shortest text up to a closing bracket on the same
\* line (no DOTALL here), None without a match
BracketSearch(a, tag) ==
  LET closes(i) == {e \in (i + Len(tag))..Len(a) :
                      /\ a[e] = "]"
                      /\ \A k \in (i + Len(tag))..(e - 1) : a[k] # "\n"}
      hits == {i \in 1..Len(a) : StartsWithAt(a, i, tag) /\ closes(i) # {}}
  IN IF hits = {} THEN None
     ELSE LET i == SetMin(hits)
          IN Some(Slice(a, i + Len(tag), SetMin(closes(i)) - 1))

\* ------------------------------------------------------------------- dict
DictKeys(d) == {d[i][1] : i \in 1..Len(d)}

\* d[k] = v
DictSet(d, k, v) ==
  IF k \in DictKeys(d)
  THEN [i \in 1..Len(d) |-> IF d[i][1] = k THEN <<k, v>> ELSE d[i]]
  ELSE Append(d, <<k, v>>)

\* dict(pairs) for pairs that all have two elements
RECURSIVE DictOf(_)
DictOf(pairs) ==
  IF pairs = <<>> THEN <<>>
  ELSE LET p == pairs[Len(pairs)]
       IN DictSet(DictOf(Slice(pairs, 1, Len(pairs) - 1)), p[1], p[2])

\* the pieces t.split('->') for t in group.split(',')
TransformPieces(group) ==
  LET ts == Split(group, Comma)
  IN [i \in 1..Len(ts) |-> Split(ts[i], Arrow)]

\* dict(...) raises ValueError on a piece that has not exactly two elements
PiecesRaise(pieces) == \E i \in 1..Len(pieces) : Len(pieces[i]) # 2

MatchRaises(transform_match) ==
  transform_match # None /\ PiecesRaise(TransformPieces(transform_match[1]))

TransformRaises(a) == MatchRaises(BracketSearch(a, TransformTag))

\* ------------------------------------------------------- the block record
\* the dict appended to code_blocks, from the match and the four searches
BlockOf(m, step_match, highlight_match, transform_match, isolate_match) ==
  [language   |-> IF m.g1 # <<>> THEN Some(m.g1) ELSE None,
   code       |-> Strip(m.g3),
   step       |-> IF step_match # None THEN ToInt(step_match[1]) ELSE 0,
   highlights |-> IF highlight_match # None
                  THEN Split(highlight_match[1], Comma) ELSE <<>>,
   transforms |-> IF transform_match # None
                  THEN DictOf(TransformPieces(transform_match[1])) ELSE <<>>,
   isolate    |-> IF isolate_match # None
                  THEN Split(isolate_match[1], Comma) ELSE <<>>]

\* one turn of the loop over the matches: annotations is group 2
Block(m) ==
  BlockOf(m, StepSearch(m.g2),
          BracketSearch(m.g2, HighlightTag),
          BracketSearch(m.g2, TransformTag),
          BracketSearch(m.g2, IsolateTag))

\* --------------------------------------------------------------- sorted()
\* b put before the elements of equal step: a sort that is not stable
InsertBeforeEqual(sorted, b) ==
  LET n == Cardinality({i \in 1..Len(sorted) : sorted[i].step < b.step})
  IN Slice(sorted, 1, n) \o <<b>> \o Slice(sorted, n + 1, Len(sorted))

\* b put into a list sorted by step, after every element whose step is not
\* larger: sorted() is stable
InsertByStep(sorted, b) ==
  LET n == Cardinality({i \in 1..Len(sorted) : sorted[i].step <= b.step})
  IN Slice(sorted, 1, n) \o <<b>> \o Slice(sorted, n + 1, Len(sorted))

\* sorted(code_blocks, key=lambda x: x['step'])
RECURSIVE SortedByStep(_)
SortedByStep(blocks) ==
  IF blocks = <<>> THEN <<>>
  ELSE InsertByStep(SortedByStep(Slice(blocks, 1, Len(blocks) - 1)),
                    blocks[Len(blocks)])

\* --------------------------------------------------------- parse_markdown
\* What the call gives for the title match tm, the matches ms of finditer
\* and the set bad of the matches whose @transform payload makes dict()
\* raise: the loop appends the blocks of the matches before the first bad
\* one, then the exception ends the call; without a bad match the sorted
\* list is returned.
ParseOutcome(c, tm, ms, bad) ==
  [raised      |-> bad # {},
   title_match |-> tm,
   title       |-> IF tm # None
                   THEN Some(Strip(Slice(c, tm[1].from, tm[1].to))) ELSE None,
   matches     |-> Slice(ms, 1, IF bad = {} THEN Len(ms) ELSE SetMin(bad)),
   appended    |-> [i \in 1..(IF bad = {} THEN Len(ms) ELSE SetMin(bad) - 1) |->
                      Block(ms[i])],
   code_blocks |-> IF bad = {}
                   THEN SortedByStep([i \in 1..Len(ms) |-> Block(ms[i])])
                   ELSE <<>>]

ParseMatches(c, tm, ms) ==
  ParseOutcome(c, tm, ms, {i \in 1..Len(ms) : TransformRaises(ms[i].g2)})

\* the call as a whole
parse_markdown(c) == ParseMatches(c, TitleSearch(c), FindFences(c, 1))

\* ------------------------------------------------------------ the inputs
RECURSIVE Flatten(_)
Flatten(parts) ==
  IF parts = <<>> THEN <<>> ELSE Head(parts) \o Flatten(Tail(parts))

SeqsUpTo(S, n) == UNION {[1..k -> S] : k \in 0..n}

\* free-form documents: any sequence of at most MaxLex lexemes
Lexemes == {Ticks, <<"\n">>, <<" ">>, <<"a">>, <<"#">>}
FreeDocs == {Flatten(ls) : ls \in SeqsUpTo(Lexemes, MaxLex)}

Letters == <<"a", "b", "c", "d", "e", "f", "g", "h">>
DigitOf(n) == CHOOSE ch \in DigitChars : DigitValue(ch) = n

\* The i-th fence of a document of ordered fences: its body is the i-th
\* letter, its opening line carries @stepN, or no step tag for N > MaxStep.
OrderedFence(i, n) ==
  Ticks \o <<"p", "y", " ">>
    \o (IF n > MaxStep THEN <<"@", "x">> ELSE StepTag \o <<DigitOf(n)>>)
    \o <<"\n", Letters[i], "\n">> \o Ticks \o <<"\n">>

OrderedDocs ==
  {Flatten([i \in 1..Len(ns) |-> OrderedFence(i, ns[i])]) :
     ns \in SeqsUpTo(0..(MaxStep + 1), MaxFences) \ {<<>>}}

\* what may stand on the opening line of an annotated fence
Tags ==
  { StepTag \o <<"2">>,
    StepTag \o <<"1", "2">>,
    HighlightTag \o <<"v", ",", "w", "]">>,
    IsolateTag \o <<"v", "]">>,
    TransformTag \o <<"x", "-", ">", "y", ",", "a", "-", ">", "b", "]">>,
    TransformTag \o <<"x", "]">>,
    TransformTag \o <<"]">>,
    TransformTag \o <<"a", "-", ">", "b", "-", ">", "c", "]">>,
    TransformTag \o <<"x", "-", ">", "y", ",", "q", "]">>,
    <<"@", "t", "r", "a", "n", "s", "f", "o", "r", "m">>,
    <<"@", "w", "a", "i", "t", "[", "3", ".", "0", "]">>,
    <<"x">> }

\* the tags of an opening line, each after one space
RECURSIVE TagLine(_)
TagLine(tags) ==
  IF tags = <<>> THEN <<>> ELSE <<" ">> \o Head(tags) \o TagLine(Tail(tags))

\* an annotated fence with body a, then a plain second fence with body b
AnnotatedDocs ==
  {Ticks \o lang \o TagLine(tags) \o <<"\n", "a", "\n">> \o Ticks \o <<"\n">>
     \o Ticks \o <<"p", "y", " ">> \o StepTag \o <<"1", "\n", "b", "\n">>
     \o Ticks \o <<"\n">> :
     lang \in {<<>>, <<"p", "y">>}, tags \in SeqsUpTo(Tags, MaxTags)}

Docs == FreeDocs \cup OrderedDocs \cup AnnotatedDocs

\* the minimal fence around a block's code: the backticks, the language if
\* any, a newline, the code, a newline and the closing backticks
MinimalFence(language, code) ==
  Ticks \o (IF language = None THEN <<>> ELSE language[1])
    \o <<"\n">> \o code \o <<"\n">> \o Ticks

\* --------------------------------------------------------------- the state
VARIABLES
  content,      \* parse_markdown: the argument
  pc,           \* "ready", "returned", "raised"
  title_match,  \* the match of the title pattern, None without one
  title,        \* the title of the returned dict
  matches,      \* the matches finditer has produced
  appended,     \* code_blocks as appended in the loop, in document order
  code_blocks,  \* the sorted list of the returned dict
  reparsed      \* the re-parse of one returned block's code in a minimal fence

pvars == <<content, pc, title_match, title, matches, appended, code_blocks, reparsed>>

\* ------------------------------------------------- the scene's environment
\* A path is a sequence of components; it is absolute when it starts with /.
IsAbs(path) == path # <<>> /\ path[1] = "/"
\* os.getcwd(), os.path.dirname(__file__), the home directory
Cwd == <<"/", "cwd">>
ScriptDir == <<"/", "script">>
Home == <<"/", "home">>
\* os.path.join(a, path)
Join(a, path) == IF IsAbs(path) THEN path ELSE a \o path
\* os.path.abspath(path)
Abspath(path) == Join(Cwd, path)
\* os.path.expanduser(path)
Expanduser(path) ==
  IF path # <<>> /\ path[1] = "~" THEN Home \o Tail(path) ELSE path
\* the file the operating system opens for a path: relative to the cwd
Resolve(path) == Join(Cwd, path)

\* search_paths of load_markdown_file
SearchPaths(file_path) ==
  << file_path,
     Abspath(file_path),
     Join(Cwd, file_path),
     Join(ScriptDir, file_path),
     Expanduser(file_path) >>

\* the paths a command line may name
Paths == {<<"f.md">>, <<"~", "f.md">>, <<"/", "f.md">>}
Locations == {Resolve(SearchPaths(path)[i]) : path \in Paths, i \in 1..5}

\* What is at a location: nothing (or a directory), a readable UTF-8 file,
\* a file open() refuses (OSError), a file whose bytes are not UTF-8
\* (read() raises UnicodeDecodeError, which is a ValueError).
Status == {"missing", "ok", "denied", "undecodable"}

\* longest command line
MaxArgv == 5
Argvs ==
  {SubSeq(<<<<"manimgl">>, <<"manim.py">>, <<"MarkdownCodeScene">>, path, <<"-w">>>>
            \o [i \in 1..(MaxArgv - 5) |-> <<"-w">>], 1, n) :
     path \in Paths, n \in 1..MaxArgv}

\* the texts of the files
TitleLine == <<"#", " ", "T", "\n">>
SceneDocs ==
  << TitleLine \o OrderedFence(1, 2) \o OrderedFence(2, 1) \o OrderedFence(3, 1),
     OrderedFence(1, 1),
     TitleLine,
     OrderedFence(1, 0) \o Ticks \o <<"p", "y", " ">> \o TransformTag
       \o <<"x", "]", "\n", "b", "\n">> \o Ticks \o <<"\n">>,
     <<>>,
     Ticks \o <<" ">> \o StepTag \o <<"2", "\n", "a", "\n">> \o Ticks \o <<"\n">>
       \o OrderedFence(2, 1) >>

LocationIndex(loc) ==
  CASE loc = <<"/", "cwd", "f.md">> -> 0
    [] loc = <<"/", "script", "f.md">> -> 1
    [] loc = <<"/", "f.md">> -> 2
    [] loc = <<"/", "cwd", "~", "f.md">> -> 3
    [] loc = <<"/", "script", "~", "f.md">> -> 4
    [] loc = <<"/", "home", "f.md">> -> 5

VARIABLES
  sys_argv,          \* the command line
  fs,                \* what is at each location
  texts,             \* the text of the file at each location
  spc,               \* where construct stands
  markdown_file,     \* construct's local, None while unbound
  search_i,          \* load_markdown_file: index of the next candidate
  tried,             \* load_markdown_file: the candidates tested so far
  markdown_content,  \* what load_markdown_file returned
  parser_calls,      \* how often construct has called parse_markdown
  parsed,            \* parsed_data, None before the call
  title_mob,         \* the title's Text, None without one
  code_mobs,         \* the mobjects built for the blocks
  current_code,      \* index in code_mobs of the mobject on screen
  played,            \* the self.play and self.wait calls so far
  exception          \* the exception that ended construct, None without one

svars == <<sys_argv, fs, texts, spc, markdown_file, search_i, tried,
           markdown_content, parser_calls, parsed, title_mob, code_mobs,
           current_code, played, exception>>

vars == <<pvars, svars>>

ParserIdle ==
  /\ pc = "ready"
  /\ title_match = None
  /\ title = None
  /\ matches = <<>>
  /\ appended = <<>>
  /\ code_blocks = <<>>
  /\ reparsed = None

SceneIdle ==
  /\ spc = "argv"
  /\ markdown_file = None
  /\ search_i = 1
  /\ tried = <<>>
  /\ markdown_content = None
  /\ parser_calls = 0
  /\ parsed = None
  /\ title_mob = None
  /\ code_mobs = <<>>
  /\ current_code = 0
  /\ played = <<>>
  /\ exception = None

\* ------------------------------------------------- parse_markdown, alone
Init ==
  /\ content \in Docs
  /\ ParserIdle
  /\ sys_argv = <<<<"manimgl">>>>
  /\ fs = [loc \in Locations |-> "missing"]
  /\ texts = [loc \in Locations |-> <<>>]
  /\ SceneIdle

\* the call ends with the outcome r
Outcome(r) ==
  /\ pc' = IF r.raised THEN "raised" ELSE "returned"
  /\ title_match' = r.title_match
  /\ title' = r.title
  /\ matches' = r.matches
  /\ appended' = r.appended
  /\ code_blocks' = r.code_blocks

\* parser.parse_markdown(content)
ParseMarkdown ==
  /\ pc = "ready"
  /\ Outcome(parse_markdown(content))
  /\ UNCHANGED <<content, reparsed, svars>>

\* parse_markdown on the minimal fence around the code of a returned block
Reparse ==
  /\ pc = "returned"
  /\ reparsed = None
  /\ \E i \in 1..Len(code_blocks) :
       LET b == code_blocks[i]
       IN reparsed' = Some([code |-> b.code,
                            out  |-> parse_markdown(MinimalFence(b.language, b.code))])
  /\ UNCHANGED <<content, pc, title_match, title, matches, appended, code_blocks, svars>>

Next == ParseMarkdown \/ Reparse

Spec == Init /\ [][Next]_vars

\* -------------------------------------------------------------- the scene
SceneInit ==
  /\ content = <<>>
  /\ ParserIdle
  /\ sys_argv \in Argvs
  /\ fs \in [Locations -> Status]
  /\ \A loc \in Locations :
       (Len(sys_argv) < 4 \/ \A i \in 1..5 : Resolve(SearchPaths(sys_argv[4])[i]) # loc)
         => fs[loc] = "missing"
  /\ \E shift \in 0..(Len(SceneDocs) - 1) :
       texts = [loc \in Locations |->
                  SceneDocs[((LocationIndex(loc) + shift) % Len(SceneDocs)) + 1]]
  /\ SceneIdle

Play(call) == played' = Append(played, call)
Raise(e) == exception' = Some(e) /\ spc' = "raised"

\* construct, lines 111-115: markdown_file = sys.argv[3] when the command
\* line has more than one element.  A shorter command line than four
\* elements raises IndexError; with one element markdown_file stays unbound
\* and reading it for the call of load_markdown_file raises
\* UnboundLocalError.
ReadArgv ==
  /\ spc = "argv"
  /\ IF Len(sys_argv) > 1
     THEN IF Len(sys_argv) >= 4
          THEN /\ markdown_file' = Some(sys_argv[4])
               /\ spc' = "search"
               /\ UNCHANGED exception
          ELSE /\ Raise("IndexError")
               /\ UNCHANGED markdown_file
     ELSE /\ Raise("UnboundLocalError")
          /\ UNCHANGED markdown_file
  /\ UNCHANGED <<pvars, sys_argv, fs, texts, search_i, tried, markdown_content,
                 parser_calls, parsed, title_mob, code_mobs, current_code, played>>

\* load_markdown_file, one turn of the loop over search_paths: a candidate
\* that is no file is passed over; open() and read() return the text, raise
\* OSError (caught: continue) or raise UnicodeDecodeError (not caught).
TryPath ==
  /\ spc = "search"
  /\ search_i <= 5
  /\ LET path == SearchPaths(markdown_file[1])[search_i]
         at == fs[Resolve(path)]
     IN /\ tried' = Append(tried, path)
        /\ CASE at = "missing" ->
                  /\ search_i' = search_i + 1
                  /\ UNCHANGED <<spc, markdown_content, exception>>
             [] at = "denied" ->
                  /\ search_i' = search_i + 1
                  /\ UNCHANGED <<spc, markdown_content, exception>>
             [] at = "ok" ->
                  /\ markdown_content' = Some(texts[Resolve(path)])
                  /\ spc' = "loaded"
                  /\ UNCHANGED <<search_i, exception>>
             [] at = "undecodable" ->
                  /\ Raise("UnicodeDecodeError")
                  /\ UNCHANGED <<search_i, markdown_content>>
  /\ UNCHANGED <<pvars, sys_argv, fs, texts, markdown_file, parser_calls, parsed,
                 title_mob, code_mobs, current_code, played>>

\* load_markdown_file, line 106: return None after the last candidate
ReturnNone ==
  /\ spc = "search"
  /\ search_i > 5
  /\ markdown_content' = None
  /\ spc' = "loaded"
  /\ UNCHANGED <<pvars, sys_argv, fs, texts, markdown_file, search_i, tried,
                 parser_calls, parsed, title_mob, code_mobs, current_code, played,
                 exception>>

\* construct, lines 117-126: the error text for a file that was not found
FileNotFound ==
  /\ spc = "loaded"
  /\ markdown_content = None
  /\ played' = played \o << <<"Write", <<"error", "File not found">> >>,
                            <<"wait", "3">> >>
  /\ spc' = "done"
  /\ UNCHANGED <<pvars, sys_argv, fs, texts, markdown_file, search_i, tried,
                 markdown_content, parser_calls, parsed, title_mob, code_mobs,
                 current_code, exception>>

\* construct with the outcome r of parse_markdown: the exception goes on
\* to the caller; a returned title that is not empty is written
Parsed(r) ==
  IF r.raised
  THEN /\ Raise("ValueError")
       /\ UNCHANGED <<parsed, title_mob, played>>
  ELSE /\ parsed' = Some([title |-> r.title, code_blocks |-> r.code_blocks])
       /\ IF r.title # None /\ r.title[1] # <<>>
          THEN /\ title_mob' = Some(<<"title", r.title[1]>>)
               /\ Play(<<"Write", <<"title", r.title[1]>> >>)
          ELSE UNCHANGED <<title_mob, played>>
       /\ spc' = "parsed"
       /\ UNCHANGED exception

\* construct, lines 129-137: parse the text, write the title if there is one
ParseContent ==
  /\ spc = "loaded"
  /\ markdown_content # None
  /\ parser_calls' = parser_calls + 1
  /\ Parsed(parse_markdown(markdown_content[1]))
  /\ UNCHANGED <<pvars, sys_argv, fs, texts, markdown_file, search_i, tried,
                 markdown_content, code_mobs, current_code>>

\* construct, lines 139-143: the error text for a text without blocks
NoCodeBlocks ==
  /\ spc = "parsed"
  /\ parsed[1].code_blocks = <<>>
  /\ played' = played \o << <<"Write", <<"error", "No code blocks found">> >>,
                            <<"wait", "2">> >>
  /\ spc' = "done"
  /\ UNCHANGED <<pvars, sys_argv, fs, texts, markdown_file, search_i, tried,
                 markdown_content, parser_calls, parsed, title_mob, code_mobs,
                 current_code, exception>>

\* The mobject of the i-th block: a group of Text lines for a block without
\* language, the lexer's coloured tokens for a block with one (what the
\* lexer and Text make of the code is the libraries' business).
Mob(blocks, i) ==
  <<"mob", i, IF blocks[i].language = None THEN "text" ELSE "highlighted",
    blocks[i].code>>

\* construct, lines 218-283: one mobject per block, in the list's order
BuildMobs ==
  /\ spc = "parsed"
  /\ parsed[1].code_blocks # <<>>
  /\ code_mobs' = [i \in 1..Len(parsed[1].code_blocks) |-> Mob(parsed[1].code_blocks, i)]
  /\ spc' = "built"
  /\ UNCHANGED <<pvars, sys_argv, fs, texts, markdown_file, search_i, tried,
                 markdown_content, parser_calls, parsed, title_mob, current_code,
                 played, exception>>

\* construct, lines 286-289: Write the first mobject
WriteFirst ==
  /\ spc = "built"
  /\ current_code' = 1
  /\ played' = played \o << <<"Write", code_mobs[1]>>, <<"wait", "1.5">> >>
  /\ spc' = "animating"
  /\ UNCHANGED <<pvars, sys_argv, fs, texts, markdown_file, search_i, tried,
                 markdown_content, parser_calls, parsed, title_mob, code_mobs,
                 exception>>

\* construct, lines 291-294: one turn of the loop over code_mobs[1:]
TransformNext ==
  /\ spc = "animating"
  /\ current_code < Len(code_mobs)
  /\ played' = played \o
       << <<"ReplacementTransform", code_mobs[current_code], code_mobs[current_code + 1]>>,
          <<"wait", "1.5">> >>
  /\ current_code' = current_code + 1
  /\ UNCHANGED <<pvars, sys_argv, fs, texts, spc, markdown_file, search_i, tried,
                 markdown_content, parser_calls, parsed, title_mob, code_mobs,
                 exception>>

\* construct, lines 296-299: fade out what is on screen
FadeOutLast ==
  /\ spc = "animating"
  /\ current_code = Len(code_mobs)
  /\ IF title_mob # None
     THEN Play(<<"FadeOut", code_mobs[current_code], title_mob[1]>>)
     ELSE Play(<<"FadeOut", code_mobs[current_code]>>)
  /\ spc' = "done"
  /\ UNCHANGED <<pvars, sys_argv, fs, texts, markdown_file, search_i, tried,
                 markdown_content, parser_calls, parsed, title_mob, code_mobs,
                 current_code, exception>>

SceneNext ==
  \/ ReadArgv
  \/ TryPath
  \/ ReturnNone
  \/ FileNotFound
  \/ ParseContent
  \/ NoCodeBlocks
  \/ BuildMobs
  \/ WriteFirst
  \/ TransformNext
  \/ FadeOutLast

SceneSpec == SceneInit /\ [][SceneNext]_vars

\* ======================================================= parse_markdown
\* the index of the newline that ends the line on which index i stands
\* (Len(c) + 1 when that line is the last and has no newline)
LineEnd(c, i) == i + DotRunLen(c, i)

\* C1: the returned list is ordered by non-decreasing step, blocks of equal
\* step keep the order of their fences in the text, and the list holds the
\* block of every matched fence exactly once.
C1_SortedStable ==
  pc = "returned" =>
    /\ Len(code_blocks) = Len(matches)
    /\ Len(appended) = Len(matches)
    /\ \A i \in 1..(Len(code_blocks) - 1) :
         code_blocks[i].step <= code_blocks[i + 1].step
    /\ \E p \in Permutations(1..Len(appended)) :
         /\ \A i \in 1..Len(appended) : code_blocks[i] = appended[p[i]]
         /\ \A i, j \in 1..Len(appended) :
              (i < j /\ code_blocks[i].step = code_blocks[j].step) => p[i] < p[j]

\* three fences, out of step order in the text, two of them with the same step
C1_Witness ==
  /\ pc = "returned"
  /\ Len(code_blocks) >= 3
  /\ code_blocks # appended
  /\ \E i, j \in 1..Len(code_blocks) :
       /\ i < j
       /\ code_blocks[i].step = code_blocks[j].step
       /\ code_blocks[i].code # code_blocks[j].code

\* C2: parse_markdown never raises on a malformed @transform payload; the
\* entries that do not split on -> into a key and a value are skipped, the
\* well-formed ones are kept, and every fence of the text is returned.
C2_MalformedSkipped ==
  /\ pc # "raised"
  /\ pc = "returned" =>
       /\ Len(code_blocks) = Len(FindFences(content, 1))
       /\ \A i \in 1..Len(matches) :
            LET tm == BracketSearch(matches[i].g2, TransformTag)
            IN tm # None =>
                 appended[i].transforms =
                   DictOf(SelectSeq(TransformPieces(tm[1]), LAMBDA t : Len(t) = 2))

\* C3: the code of a returned block, put into a minimal fence of the same
\* language and parsed again, gives exactly one block with the same code.
C3_RoundTrip ==
  reparsed # None =>
    /\ ~reparsed[1].out.raised
    /\ Len(reparsed[1].out.code_blocks) = 1
    /\ reparsed[1].out.code_blocks[1].code = reparsed[1].code

\* C4: a fence whose backticks are not followed by a language tag gives a
\* block without language, whose annotation string is the rest of the
\* opening line and whose code is the stripped body between the opening
\* line and the closing backticks.
C4_NoLanguageFence ==
  pc = "returned" =>
    \A i \in 1..Len(matches) :
      LET m == matches[i]
          nl == LineEnd(content, m.start + 3)
          close == SetMin({e \in (nl + 1)..Len(content) : StartsWithAt(content, e, Ticks)})
      IN (m.start + 3 > Len(content) \/ ~IsWord(content[m.start + 3])) =>
           /\ appended[i].language = None
           /\ Strip(m.g2) = Strip(Slice(content, m.start + 3, nl - 1))
           /\ appended[i].code = Strip(Slice(content, nl + 1, close - 1))

\* the title as C5 describes it: from the first line that is #, one or more
\* spaces, then text; None without such a line
ClaimedTitle(c) ==
  LET lines == Split(c, <<"\n">>)
      isHeading(l) == /\ Len(l) >= 2
                      /\ l[1] = "#"
                      /\ IsSpace(l[2])
      hits == {i \in 1..Len(lines) : isHeading(lines[i])}
  IN IF hits = {} THEN None
     ELSE Some(Strip(Tail(lines[SetMin(hits)])))

\* C5: the title is the stripped text after # and spaces on the first line
\* of that shape, always text of that same line, and None without such a
\* line.
C5_TitleFromHeadingLine ==
  pc = "returned" => title = ClaimedTitle(content)

\* C6: the code of every returned block holds no three backticks in a row,
\* has no whitespace at either end, and is text of the body: it starts
\* after the newline that ends the fence's opening line and ends before the
\* closing backticks.
C6_CodeClean ==
  pc = "returned" =>
    \A i \in 1..Len(matches) :
      LET m == matches[i]
          code == appended[i].code
      IN /\ \A k \in 1..Len(code) : ~StartsWithAt(code, k, Ticks)
         /\ code # <<>> => ~IsSpace(code[1]) /\ ~IsSpace(code[Len(code)])
         /\ m.g3from > LineEnd(content, m.start)
         /\ \E a \in m.g3from..(m.stop - 2) :
              code = Slice(content, a, a + Len(code) - 1) /\ a + Len(code) - 1 <= m.stop - 3

\* a body with whitespace around its code, below an opening line with text
C6_Witness ==
  /\ pc = "returned"
  /\ \E i \in 1..Len(matches) :
       /\ matches[i].g2 # <<>>
       /\ appended[i].code # <<>>
       /\ matches[i].g3 # appended[i].code

\* the fields of a block and their defaults as C7 lists them
ClaimedDefaults ==
  [step |-> 0, wait |-> <<"1", ".", "5">>, use_transform |-> FALSE,
   use_write |-> FALSE, fontsize |-> 24, highlights |-> <<>>,
   transforms |-> <<>>, isolate |-> <<>>]

HasText(a, lit) == \E i \in 1..Len(a) : StartsWithAt(a, i, lit)

\* C7: a fence whose annotation line has no tag gives a block with every
\* annotation field at its default (step 0, wait 1.5, use_transform false,
\* use_write false, fontsize 24, highlights, transforms and isolate empty),
\* and @wait[3.0] gives wait 3.0.
C7_Defaults ==
  pc = "returned" =>
    \A i \in 1..Len(matches) :
      LET a == matches[i].g2
          b == appended[i]
      IN /\ ~HasText(a, <<"@">>) =>
              \A f \in DOMAIN ClaimedDefaults :
                f \in DOMAIN b /\ b[f] = ClaimedDefaults[f]
         /\ HasText(a, <<"@", "w", "a", "i", "t", "[", "3", ".", "0", "]">>) =>
              "wait" \in DOMAIN b /\ b["wait"] = <<"3", ".", "0">>

BareTransform == <<"@", "t", "r", "a", "n", "s", "f", "o", "r", "m">>

\* C8: the bracketed @transform[k->v,...] gives transforms with each key
\* mapped to its value and use_transform false; the bare @transform gives
\* use_transform true and transforms empty.
C8_TransformForms ==
  pc = "returned" =>
    \A i \in 1..Len(matches) :
      LET a == matches[i].g2
          b == appended[i]
          tm == BracketSearch(a, TransformTag)
          bare == \E k \in 1..Len(a) :
                    StartsWithAt(a, k, BareTransform) /\ ~StartsWithAt(a, k, TransformTag)
      IN /\ (tm # None /\ ~bare) =>
              /\ b.transforms = DictOf(TransformPieces(tm[1]))
              /\ "use_transform" \in DOMAIN b
              /\ b["use_transform"] = FALSE
         /\ (tm = None /\ bare) =>
              /\ b.transforms = <<>>
              /\ "use_transform" \in DOMAIN b
              /\ b["use_transform"] = TRUE

\* ================================================================ the scene
\* load_markdown_file has returned to construct
LoadReturned ==
  \/ spc \in {"loaded", "parsed", "built", "animating", "done"}
  \/ exception = Some("ValueError")

\* C9: the candidates are tried in the order: the path as given, its
\* absolute form, joined with the cwd, joined with the script's directory,
\* ~ expanded; the text of the first candidate that is a file and can be
\* read is returned, a candidate that is missing or cannot be read is passed
\* over, and None is returned, never an exception raised, when no candidate
\* gives a text.
C9_SearchOrder ==
  markdown_file # None =>
    LET file_path == markdown_file[1]
        order == << file_path, Abspath(file_path), Join(Cwd, file_path),
                    Join(ScriptDir, file_path), Expanduser(file_path) >>
        readable == {i \in 1..5 : fs[Resolve(order[i])] = "ok"}
    IN /\ tried = SubSeq(order, 1, Len(tried))
       /\ exception # Some("UnicodeDecodeError")
       /\ LoadReturned =>
            markdown_content =
              IF readable = {} THEN None
              ELSE Some(texts[Resolve(order[SetMin(readable)])])

\* the self.play calls, without the waits and the error texts
BlockPlays ==
  SelectSeq(played, LAMBDA call : call[1] # "wait" /\ call[2][1] # "error")

\* the self.play calls C10 describes for a parse result
ExpectedPlays(r) ==
  LET n == Len(r.code_blocks)
      shown(i) == Mob(r.code_blocks, i)
      titled == r.title # None /\ r.title[1] # <<>>
      heading == <<"title", r.title[1]>>
  IN (IF titled THEN << <<"Write", heading>> >> ELSE <<>>)
     \o (IF n = 0 THEN <<>>
         ELSE << <<"Write", shown(1)>> >>
              \o [i \in 1..(n - 1) |-> <<"ReplacementTransform", shown(i), shown(i + 1)>>]
              \o << IF titled THEN <<"FadeOut", shown(n), heading>>
                    ELSE <<"FadeOut", shown(n)>> >>)

\* C10: when the file is not found only the error text is written and the
\* parser is never called; otherwise the title, if any, is written first,
\* the first block in step order is shown with Write, every later block
\* exactly once, in step order, by a ReplacementTransform from the block
\* before it, and the run ends with one FadeOut of the last block (and the
\* title); without blocks no block animation is played.
C10_AnimationOrder ==
  (spc \in {"done", "raised"} /\ LoadReturned) =>
    IF markdown_content = None
    THEN /\ parser_calls = 0
         /\ SelectSeq(played, LAMBDA call : call[1] # "wait")
              = << <<"Write", <<"error", "File not found">> >> >>
    ELSE /\ exception = None
         /\ BlockPlays = ExpectedPlays(parse_markdown(markdown_content[1]))

====
